---------------------------- MODULE Spec2Model ----------------------------
(***************************************************************************)
(* Model of the paginated GitHub listing helpers (github.py) and of the    *)
(* non-negative integer field factory (schemas.py).                        *)
(*                                                                         *)
(* A text is a sequence of string pieces; Python's + and f-string          *)
(* interpolation are concatenation of such sequences.                      *)
(***************************************************************************)
EXTENDS Integers, Sequences, FiniteSets, TLC

VARIABLES
    call,      \* the top-level invocation: function name and its arguments
    stack,     \* nested invocations of the listing function, innermost last
    pc,        \* position of the innermost invocation: "idle", "send", "wait", "unwind", "done"
    ret,       \* what the invocation that just ended hands to its caller
    http,      \* the requests issued so far, each with the response it got
    log,       \* logger.error entries, oldest first
    outcome,   \* result of the top-level invocation
    field,     \* schemas: the field being loaded (name and Integer options)
    input,     \* schemas: the raw value handed to the field
    vpc,       \* schemas: "idle", "deserialize", "validate", "done"
    output,    \* schemas: the deserialized integer
    errors     \* schemas: the validation error raised, <<>> when none

ghvars == <<call, stack, pc, ret, http, log, outcome>>
scvars == <<field, input, vpc, output, errors>>
vars == <<call, stack, pc, ret, http, log, outcome, field, input, vpc, output, errors>>

---------------------------------------------------------------------------
(* Bounds *)

MaxPageSize == 3
MaxRequests == 4
MaxStartPage == 2
MaxInt == 6

(* Program constants *)

DefaultTimeout == 10

Functions == {"list_organizations", "list_user_repos", "list_org_repos"}
Tokens == {"tokA", "tokB"}
OrgIds == {"acme"}
Messages == {"Bad credentials", "Not Found"}
TimeoutDetails == {"read timed out", "connect timed out"}
RedirectDetail == "Exceeded 30 redirects."
ConnectionDetail == "Connection refused"

---------------------------------------------------------------------------
(* Exceptions.  An exception has a class, the text it was built with and,  *)
(* when it was built from another exception (Exception(e)), that one.      *)

NoExc == <<>>

MakeExc(type, arg) == [type |-> type, arg |-> arg, inner |-> NoExc]

\* Exception(e): a plain Exception whose single argument is the exception e
Wrap(e) == [type |-> "Exception", arg |-> <<>>, inner |-> <<e>>]

\* str(e): str of the single argument; KeyError shows the repr of the key
RECURSIVE Str(_)
Str(e) ==
    IF e.inner # NoExc THEN Str(e.inner[1])
    ELSE IF e.type = "KeyError" THEN <<"'">> \o e.arg \o <<"'">>
    ELSE e.arg

\* the class hierarchy of requests.exceptions and the builtins
IsInstance(e, cls) ==
    \/ e.type = cls
    \/ cls = "Exception"
    \/ cls = "RequestException" /\ e.type \in {"Timeout", "TooManyRedirects"}

---------------------------------------------------------------------------
(* The three listing functions: what differs between them *)

FixedMessage(fn) ==
    CASE fn = "list_organizations" -> <<"Error retrieving Github organizations.">>
      [] fn = "list_user_repos" -> <<"Error retrieving Github repositories for user.">>
      [] fn = "list_org_repos" -> <<"Error retrieving Github repositories for org.">>

\* exception = Exception("Error retrieving ...")
FixedException(fn) == MakeExc("Exception", FixedMessage(fn))

Url(fn, org_id) ==
    CASE fn = "list_organizations" -> <<"https://api.github.com/user/orgs">>
      [] fn = "list_user_repos" -> <<"https://api.github.com/user/repos">>
      [] fn = "list_org_repos" -> <<"https://api.github.com/orgs/", org_id, "/repos">>

Headers(access_token) ==
    [Accept |-> "vnd.github.v3+json", Authorization |-> <<"token ", access_token>>]

ExtraParams(fn) ==
    IF fn = "list_organizations" THEN {}
    ELSE {<<"sort", "full_name">>, <<"type", "all">>}

ItemKey(fn) == IF fn = "list_organizations" THEN "login" ELSE "name"

ApiErrorPrefix(fn) ==
    IF fn = "list_organizations" THEN "Error listing organizations: "
    ELSE "Error listing repositories: "

LogContext(fn) ==
    CASE fn = "list_organizations" -> "Error listing Github organizations: "
      [] fn = "list_user_repos" -> "Error listing Github Repositories: "
      [] fn = "list_org_repos" -> "Error listing Github Organization Repositories: "

\* raise Exception("Error listing ...: " + str(json["message"]))
ApiErrorNoMessage(fn, message) == MakeExc("Exception", <<ApiErrorPrefix(fn)>>)
ApiError(fn, message) == MakeExc("Exception", <<ApiErrorPrefix(fn), message>>)

\* {"id": item[key], "name": item[key]}
MapItemById(fn, item) == [id |-> item.id, name |-> item[ItemKey(fn)]]
MapItem(fn, item) == [id |-> item[ItemKey(fn)], name |-> item[ItemKey(fn)]]

\* if len(repos) == page_size
ShouldRecurseNonEmpty(n, page_size) == n > 0
ShouldRecurse(n, page_size) == n = page_size

\* page+1
NextPageSame(page) == page
NextPage(page) == page + 1

\* repos = repos + next_repos
ConcatOverwrite(repos, next_repos) == next_repos
Concat(repos, next_repos) == repos \o next_repos

---------------------------------------------------------------------------
(* The except clauses: the log entry written and the exception raised *)

OnTimeoutReraise(fn, e) ==
    [log |-> <<"Request timed out. ">> \o Str(e), raise |-> Wrap(e)]
OnTimeout(fn, e) ==
    [log |-> <<"Request timed out. ">> \o Str(e), raise |-> FixedException(fn)]

OnTooManyRedirects(fn, e) ==
    [log |-> <<"Too many redirects. ">> \o Str(e), raise |-> FixedException(fn)]

OnRequestExceptionReraise(fn, e) ==
    [log |-> <<"Request error occurred. ">> \o Str(e), raise |-> Wrap(e)]
OnRequestException(fn, e) ==
    [log |-> <<"Request error occurred. ">> \o Str(e), raise |-> FixedException(fn)]

OnExceptionAddContext(fn, e) ==
    [log |-> <<LogContext(fn)>> \o Str(e),
     raise |-> MakeExc("Exception", <<LogContext(fn)>> \o Str(e))]
OnException(fn, e) ==
    [log |-> <<LogContext(fn)>> \o Str(e), raise |-> Wrap(e)]

\* the first except clause whose class the exception is an instance of
Handle(fn, e) ==
    IF IsInstance(e, "Timeout") THEN OnTimeout(fn, e)
    ELSE IF IsInstance(e, "TooManyRedirects") THEN OnTooManyRedirects(fn, e)
    ELSE IF IsInstance(e, "RequestException") THEN OnRequestException(fn, e)
    ELSE OnException(fn, e)

---------------------------------------------------------------------------
(* The server: item n of the listed collection, and a page of it *)

ServerItem(fn, n) ==
    IF fn = "list_organizations" THEN [id |-> 1000 + n, login |-> n]
    ELSE [id |-> 1000 + n, name |-> n]

PageItems(fn, page, per_page, count) ==
    [i \in 1..count |-> ServerItem(fn, (page - 1) * per_page + i)]

\* repos = []; for repo in repos_json: repos.append({...})
MapPage(fn, items) == [i \in 1..Len(items) |-> MapItem(fn, items[i])]

Pending == [kind |-> "pending", count |-> 0, detail |-> ""]
Ok(count) == [kind |-> "ok", count |-> count, detail |-> ""]
Failure(kind, detail) == [kind |-> kind, count |-> 0, detail |-> detail]

\* the exception a failed exchange raises inside the try block: the request
\* itself fails, the status is not 200 (with or without a message in the
\* body), or an item of a 200 body lacks the key
Raised(fn, resp) ==
    CASE resp.kind = "timeout" -> MakeExc("Timeout", <<resp.detail>>)
      [] resp.kind = "redirects" -> MakeExc("TooManyRedirects", <<resp.detail>>)
      [] resp.kind = "connection" -> MakeExc("RequestException", <<resp.detail>>)
      [] resp.kind = "status" -> ApiError(fn, resp.detail)
      [] resp.kind = "nomessage" -> MakeExc("KeyError", <<"message">>)
      [] resp.kind = "baditem" -> MakeExc("KeyError", <<ItemKey(fn)>>)

Failures ==
    {Failure("timeout", d) : d \in TimeoutDetails}
    \cup {Failure("redirects", RedirectDetail), Failure("connection", ConnectionDetail)}
    \cup {Failure("status", m) : m \in Messages}
    \cup {Failure("nomessage", ""), Failure("baditem", "")}

---------------------------------------------------------------------------
(* State of the listing helpers *)

NoRet == [kind |-> "none", value |-> <<>>, exc |-> NoExc]
Value(v) == [kind |-> "value", value |-> v, exc |-> NoExc]
Exc(e) == [kind |-> "exc", value |-> <<>>, exc |-> <<e>>]

NoCall == [fn |-> "none", access_token |-> "", org_id |-> "", page_size |-> 0, page |-> 0]

Frame(access_token, org_id, page_size, page) ==
    [access_token |-> access_token, org_id |-> org_id, page_size |-> page_size,
     page |-> page, repos |-> <<>>]

Top == stack[Len(stack)]
Pop == SubSeq(stack, 1, Len(stack) - 1)

\* requests.get(url, timeout=10, headers={...}, params={...})
Request(fn, f) ==
    [url |-> Url(fn, f.org_id), timeout |-> DefaultTimeout,
     headers |-> Headers(f.access_token),
     page |-> f.page, per_page |-> f.page_size, extra |-> ExtraParams(fn),
     resp |-> Pending]

PageSizes == 0..MaxPageSize
StartPages == 1..MaxStartPage

GithubInit ==
    /\ call = NoCall
    /\ stack = <<>>
    /\ pc = "idle"
    /\ ret = NoRet
    /\ http = <<>>
    /\ log = <<>>
    /\ outcome = NoRet

\* the invocation that ended hands r to its caller, or to the program
Deliver(r, rest) ==
    /\ stack' = rest
    /\ IF rest = <<>>
       THEN pc' = "done" /\ outcome' = r /\ ret' = NoRet
       ELSE pc' = "unwind" /\ ret' = r /\ UNCHANGED outcome

\* the program calls one of the three functions
Call(fn, access_token, org_id, page_size, page) ==
    /\ pc = "idle"
    /\ call' = [fn |-> fn, access_token |-> access_token, org_id |-> org_id,
                page_size |-> page_size, page |-> page]
    /\ stack' = <<Frame(access_token, org_id, page_size, page)>>
    /\ pc' = "send"
    /\ UNCHANGED <<ret, http, log, outcome>>
    /\ UNCHANGED scvars

\* the innermost invocation issues its GET
Send ==
    /\ pc = "send"
    /\ Len(http) < MaxRequests
    /\ http' = Append(http, Request(call.fn, Top))
    /\ pc' = "wait"
    /\ UNCHANGED <<call, stack, ret, log, outcome>>
    /\ UNCHANGED scvars

\* a 200 response with count well-formed items: map them, then recurse or return
\* (the server returns at most per_page items for a page)
ReceiveOk(count) ==
    /\ pc = "wait"
    /\ count <= Top.page_size
    /\ http' = [http EXCEPT ![Len(http)].resp = Ok(count)]
    /\ LET repos == MapPage(call.fn, PageItems(call.fn, Top.page, Top.page_size, count))
       IN IF ShouldRecurse(Len(repos), Top.page_size)
          THEN /\ stack' = Append([stack EXCEPT ![Len(stack)].repos = repos],
                                  Frame(Top.access_token, Top.org_id, Top.page_size,
                                        NextPage(Top.page)))
               /\ pc' = "send"
               /\ UNCHANGED <<ret, outcome>>
          ELSE Deliver(Value(repos), Pop)
    /\ UNCHANGED <<call, log>>
    /\ UNCHANGED scvars

\* the request or the handling of its response raises inside the try block
ReceiveFailure(resp) ==
    /\ pc = "wait"
    /\ http' = [http EXCEPT ![Len(http)].resp = resp]
    /\ LET h == Handle(call.fn, Raised(call.fn, resp))
       IN /\ log' = Append(log, h.log)
          /\ Deliver(Exc(h.raise), Pop)
    /\ UNCHANGED call
    /\ UNCHANGED scvars

\* the recursive call returned: concatenate and return
ResumeReturn ==
    /\ pc = "unwind"
    /\ ret.kind = "value"
    /\ Deliver(Value(Concat(Top.repos, ret.value)), Pop)
    /\ UNCHANGED <<call, http, log>>
    /\ UNCHANGED scvars

\* the recursive call raised: an except clause of the caller takes it
ResumeRaiseSwallow ==
    /\ pc = "unwind"
    /\ ret.kind = "exc"
    /\ log' = Append(log, Handle(call.fn, ret.exc[1]).log)
    /\ Deliver(Value(Top.repos), Pop)
    /\ UNCHANGED <<call, http>>
    /\ UNCHANGED scvars
ResumeRaise ==
    /\ pc = "unwind"
    /\ ret.kind = "exc"
    /\ LET h == Handle(call.fn, ret.exc[1])
       IN /\ log' = Append(log, h.log)
          /\ Deliver(Exc(h.raise), Pop)
    /\ UNCHANGED <<call, http>>
    /\ UNCHANGED scvars

---------------------------------------------------------------------------
(* schemas.py: Integer fields and the Range validator *)

None == <<>>
Some(x) == <<x>>

\* Python truthiness of an int used where a bool is expected
Truthy(n) == n # 0

\* validate.Range(min=None, max=None, *, min_inclusive=True, max_inclusive=True, error=None)
Range(min, max, min_inclusive, max_inclusive, error) ==
    [min |-> min, max |-> max, min_inclusive |-> min_inclusive,
     max_inclusive |-> max_inclusive, error |-> error]

\* Range.__call__: TRUE when the value is rejected
RangeRejects(r, value) ==
    \/ r.min # None /\ (IF r.min_inclusive THEN value < r.min[1] ELSE value <= r.min[1])
    \/ r.max # None /\ (IF r.max_inclusive THEN value > r.max[1] ELSE value >= r.max[1])

\* strings.<template> % name
Message(template, name) == <<template, name>>

IntegerField(schema, name, strict, required, allow_none, invalid, validate) ==
    [schema |-> schema, name |-> name, strict |-> strict, required |-> required,
     allow_none |-> allow_none,
     error_messages |-> [invalid |-> Message(invalid, name),
                         required |-> Message("missing_required_field", name),
                         null |-> Message("field_may_not_be_null", name)],
     validate |-> validate]

get_positive_int_field(schema, name, strict, required, allow_none) ==
    IntegerField(schema, name, strict, required, allow_none, "must_be_positive_integer",
        <<Range(Some(1), None, TRUE, TRUE, Message("must_be_positive_integer", name))>>)

get_non_negative_int_field(schema, name, strict, required, allow_none) ==
    IntegerField(schema, name, strict, required, allow_none, "must_be_integer",
        <<Range(None, None, Truthy(0), TRUE,
                Message("must_be_non_negative_integer", name))>>)

WorkspaceSchema == get_non_negative_int_field("WorkspaceSchema", "workspaceId", FALSE, TRUE, FALSE)
DeviceGroupSchema == get_non_negative_int_field("DeviceGroupSchema", "workspaceId", FALSE, TRUE, FALSE)

Fields ==
    {WorkspaceSchema, DeviceGroupSchema,
     get_non_negative_int_field("", "count", TRUE, TRUE, FALSE),
     get_positive_int_field("", "count", TRUE, TRUE, FALSE)}

\* raw values: the key is absent, None, an int, the decimal text of an int, other text
Inputs ==
    {[t |-> "missing", v |-> 0], [t |-> "none", v |-> 0], [t |-> "text", v |-> 0]}
    \cup {[t |-> k, v |-> n] : k \in {"int", "numeral"}, n \in -MaxInt..MaxInt}

NoField == IntegerField("", "", TRUE, TRUE, FALSE, "", <<>>)

SchemaInit ==
    /\ field = NoField
    /\ input = [t |-> "missing", v |-> 0]
    /\ vpc = "idle"
    /\ output = 0
    /\ errors = <<>>

\* Schema.load hands the raw value of the key to the field
Load(f, value) ==
    /\ vpc = "idle"
    /\ field' = f
    /\ input' = value
    /\ vpc' = "deserialize"
    /\ UNCHANGED <<output, errors>>
    /\ UNCHANGED ghvars

\* Field.deserialize and Integer._validated
Deserialize ==
    /\ vpc = "deserialize"
    /\ IF input.t = "missing"
       THEN /\ errors' = (IF field.required THEN field.error_messages.required ELSE <<>>)
            /\ vpc' = "done"
            /\ UNCHANGED output
       ELSE IF input.t = "none"
       THEN /\ errors' = (IF field.allow_none THEN <<>> ELSE field.error_messages.null)
            /\ vpc' = "done"
            /\ UNCHANGED output
       ELSE IF input.t = "text" \/ (input.t = "numeral" /\ field.strict)
       THEN /\ errors' = field.error_messages.invalid
            /\ vpc' = "done"
            /\ UNCHANGED output
       ELSE /\ output' = input.v
            /\ vpc' = "validate"
            /\ UNCHANGED errors
    /\ UNCHANGED <<field, input>>
    /\ UNCHANGED ghvars

\* Field._validate: the validators run on the deserialized value
Validate ==
    /\ vpc = "validate"
    /\ LET failed == {i \in DOMAIN field.validate : RangeRejects(field.validate[i], output)}
       IN errors' = (IF failed = {} THEN <<>>
                     ELSE field.validate[CHOOSE i \in failed : \A j \in failed : i <= j].error)
    /\ vpc' = "done"
    /\ UNCHANGED <<field, input, output>>
    /\ UNCHANGED ghvars

---------------------------------------------------------------------------
(* Specifications *)

Init == GithubInit /\ SchemaInit

Next ==
    \/ \E fn \in Functions, t \in Tokens, ps \in PageSizes, p \in StartPages :
          \E o \in (IF fn = "list_org_repos" THEN OrgIds ELSE {""}) :
             Call(fn, t, o, ps, p)
    \/ Send
    \/ \E count \in 0..MaxPageSize : ReceiveOk(count)
    \/ \E resp \in Failures : ReceiveFailure(resp)
    \/ ResumeReturn
    \/ ResumeRaise

Spec == Init /\ [][Next]_vars

NextSchema ==
    \/ \E f \in Fields, value \in Inputs : Load(f, value)
    \/ Deserialize
    \/ Validate

SpecSchema == Init /\ [][NextSchema]_vars

---------------------------------------------------------------------------
(* Vocabulary of the properties *)

Done == pc = "done"
Returned == Done /\ outcome.kind = "value"
Failed == Done /\ outcome.kind = "exc"
ErrorText == Str(outcome.exc[1])
Last == http[Len(http)]
IsFailure(resp) == resp.kind \notin {"pending", "ok"}
IsShort(r) == r.resp.kind = "ok" /\ r.resp.count < r.per_page
IsFull(r) == r.resp.kind = "ok" /\ r.resp.count = r.per_page
Contains(text, piece) == \E i \in DOMAIN text : text[i] = piece
Min(a, b) == IF a < b THEN a ELSE b
Max(a, b) == IF a < b THEN b ELSE a

RECURSIVE Fetched(_)
\* number of items in the 200 responses of the first n exchanges
Fetched(n) == IF n = 0 THEN 0 ELSE Fetched(n - 1) + http[n].resp.count

\* the text a failure raises when it happens on the first request of a call
FirstRequestText(fn, resp) ==
    CASE resp.kind \in {"timeout", "redirects", "connection"} ->
            (CASE fn = "list_organizations" -> <<"Error retrieving Github organizations.">>
               [] fn = "list_user_repos" -> <<"Error retrieving Github repositories for user.">>
               [] fn = "list_org_repos" -> <<"Error retrieving Github repositories for org.">>)
      [] resp.kind = "status" ->
            <<(IF fn = "list_organizations" THEN "Error listing organizations: "
               ELSE "Error listing repositories: "), resp.detail>>
      [] resp.kind = "nomessage" -> <<"'", "message", "'">>
      [] resp.kind = "baditem" ->
            <<"'", (IF fn = "list_organizations" THEN "login" ELSE "name"), "'">>

\* the log entry of the except clause that matches the failure's kind
InnermostLog(fn, resp) ==
    CASE resp.kind = "timeout" -> <<"Request timed out. ", resp.detail>>
      [] resp.kind = "redirects" -> <<"Too many redirects. ", resp.detail>>
      [] resp.kind = "connection" -> <<"Request error occurred. ", resp.detail>>
      [] OTHER -> <<LogContext(fn)>> \o FirstRequestText(fn, resp)

---------------------------------------------------------------------------
\* C1: a 200 response holding strictly fewer than page_size items is the last
\* exchange of the call: no request follows it, no invocation is left about to
\* send or waiting, and the invocation that got it returns a list.
C1_ShortPageStops ==
    \A i \in DOMAIN http :
        IsShort(http[i]) =>
            /\ i = Len(http)
            /\ pc \in {"unwind", "done"}
            /\ Len(stack) < Len(http)
            /\ (pc = "unwind" => ret.kind = "value")
            /\ (pc = "done" => outcome.kind = "value")

C1_Witness ==
    /\ Returned
    /\ Len(http) >= 2
    /\ IsShort(Last)
    /\ Last.resp.count > 0

\* C2: after a 200 response holding exactly page_size items exactly one further
\* request is made, for the next page with the same page size, token and URL,
\* only once the earlier response is in; in a returned list the items of an
\* earlier page come before the items of every later page.
C2_FullPageRequestsNext ==
    /\ \A i \in DOMAIN http :
          IsFull(http[i]) =>
             /\ \A j \in DOMAIN http : http[j].page = http[i].page + 1 <=> j = i + 1
             /\ IF i = Len(http)
                THEN /\ pc = "send"
                     /\ Len(stack) = i + 1
                     /\ Top.page = http[i].page + 1
                     /\ Top.page_size = http[i].per_page
                     /\ Top.access_token = call.access_token
                     /\ Top.org_id = call.org_id
                ELSE /\ http[i + 1].per_page = http[i].per_page
                     /\ http[i + 1].headers = http[i].headers
                     /\ http[i + 1].url = http[i].url
                     /\ http[i + 1].extra = http[i].extra
    /\ \A i \in DOMAIN http : i < Len(http) => http[i].resp.kind # "pending"
    /\ \A i \in DOMAIN http :
          /\ http[i].per_page = call.page_size
          /\ http[i].headers.Authorization = <<"token ", call.access_token>>
          /\ call.fn = "list_org_repos" => Contains(http[i].url, call.org_id)
    /\ Returned /\ call.page_size > 0 =>
          \A a, b \in DOMAIN outcome.value :
             a < b => (outcome.value[a].name - 1) \div call.page_size
                          <= (outcome.value[b].name - 1) \div call.page_size

C2_Witness ==
    /\ Returned
    /\ call.fn = "list_org_repos"
    /\ Len(http) >= 3
    /\ IsFull(http[1]) /\ IsFull(http[2])
    /\ Last.resp.count > 0

\* C3: when every request succeeds the returned list is, in server order, one
\* {"id": k, "name": k} mapping per item of the pages fetched, from the starting
\* page up to and including the first page shorter than page_size.
C3_ReturnedList ==
    Returned =>
        /\ \A i \in DOMAIN http : IF i < Len(http) THEN IsFull(http[i]) ELSE IsShort(http[i])
        /\ \A i \in DOMAIN http : http[i].page = call.page + i - 1
        /\ Len(outcome.value) = Fetched(Len(http))
        /\ \A k \in DOMAIN outcome.value :
              outcome.value[k] = [id |-> (call.page - 1) * call.page_size + k,
                                  name |-> (call.page - 1) * call.page_size + k]

C3_Witness ==
    /\ Returned
    /\ call.fn = "list_user_repos" /\ call.page_size = 2 /\ call.page = 1
    /\ Len(http) = 3
    /\ http[1].resp.count = 2 /\ http[2].resp.count = 2 /\ http[3].resp.count = 1
    /\ Len(outcome.value) = 5

\* C4: a non-200 response whose body carries message X ends the call with a
\* raised error whose text contains X, whichever page it happens on.
C4_ApiMessageSurfaced ==
    /\ (Done /\ http # <<>> /\ Last.resp.kind = "status") =>
          /\ outcome.kind = "exc"
          /\ Contains(ErrorText, Last.resp.detail)
    /\ (pc = "unwind" /\ Last.resp.kind = "status") =>
          /\ ret.kind = "exc"
          /\ Contains(Str(ret.exc[1]), Last.resp.detail)

C4_Witness ==
    /\ Failed
    /\ Len(http) >= 2
    /\ Last.resp.kind = "status"
    /\ Last.resp.detail = "Not Found"

\* C5: a request that times out ends the call with an error whose text is exactly
\* the function's fixed text, whatever the timeout's own detail says.
C5_TimeoutFixedText ==
    (Done /\ http # <<>> /\ Last.resp.kind = "timeout") =>
        /\ outcome.kind = "exc"
        /\ call.fn = "list_user_repos" =>
              ErrorText = <<"Error retrieving Github repositories for user.">>
        /\ call.fn = "list_organizations" =>
              ErrorText = <<"Error retrieving Github organizations.">>
        /\ call.fn = "list_org_repos" =>
              ErrorText = <<"Error retrieving Github repositories for org.">>
        /\ ~Contains(ErrorText, Last.resp.detail)

C5_Witness ==
    /\ Failed
    /\ call.fn = "list_user_repos"
    /\ Len(http) = 2
    /\ Last.resp.kind = "timeout"
    /\ Last.resp.detail = "connect timed out"

\* C6 (as stated): every failure of a call, whatever its cause, is raised as an
\* untyped error whose text is the function's fixed message.
C6_UniformFixedMessage ==
    Failed =>
        /\ outcome.exc[1].type = "Exception"
        /\ ErrorText = FirstRequestText(call.fn, Failure("timeout", ""))

\* C6 (amended): every failure is raised as an untyped Exception; a timeout, a
\* redirect-limit error and a generic request exception carry the function's
\* fixed message, any other exception (an API-reported message, a malformed
\* item) carries the text of the original exception instead.
C6_UntypedButTextByCause ==
    (Done /\ http # <<>> /\ IsFailure(Last.resp)) =>
        /\ outcome.kind = "exc"
        /\ outcome.exc[1].type = "Exception"
        /\ ErrorText = FirstRequestText(call.fn, Last.resp)
        /\ Last.resp.kind \in {"timeout", "redirects", "connection"} =>
              ErrorText = FirstRequestText(call.fn, Failure("timeout", ""))
        /\ Last.resp.kind \in {"status", "nomessage", "baditem"} =>
              ErrorText # FirstRequestText(call.fn, Failure("timeout", ""))

C6_Witness ==
    /\ Failed
    /\ Len(http) >= 2
    /\ Last.resp.kind = "connection"

\* C7: within a call no page is requested twice; a failed request is the last
\* one, and from then on the call only unwinds with an exception and ends
\* raising: the pages fetched before the failure are never returned.
C7_NoRetryTerminalFailure ==
    /\ \A i, j \in DOMAIN http : http[i].page = http[j].page => i = j
    /\ \A i \in DOMAIN http :
          IsFailure(http[i].resp) =>
             /\ i = Len(http)
             /\ pc \in {"unwind", "done"}
             /\ (pc = "unwind" => ret.kind = "exc")
             /\ (pc = "done" => outcome.kind = "exc" /\ outcome.value = <<>>)

C7_Witness ==
    /\ Failed
    /\ Len(http) >= 3
    /\ http[1].resp.count > 0
    /\ IsFailure(Last.resp)

\* the page a server holding n items returns for a request
HonestCount(n, r) == Min(r.per_page, Max(0, n - (r.page - 1) * r.per_page))

\* every response so far is the one a server holding n items gives
Honest(n) ==
    \A i \in DOMAIN http :
        http[i].resp.kind # "pending" =>
            http[i].resp.kind = "ok" /\ http[i].resp.count = HonestCount(n, http[i])

\* C9: against a server that holds n items and answers every request with the
\* items of the requested page, a call started at page 1 with page_size >= 1
\* requests pages 1, 2, ... in order, never more than n \div page_size + 1 of
\* them, is never left unable to go on, and ends having made exactly that many
\* requests and returning each of the n items exactly once.
C9_FiniteCollection ==
    \A n \in 0..(MaxPageSize * MaxRequests - 1) :
        (/\ pc # "idle"
         /\ call.page = 1
         /\ call.page_size >= 1
         /\ n < call.page_size * MaxRequests
         /\ Honest(n)) =>
            /\ Len(http) <= n \div call.page_size + 1
            /\ \A i \in DOMAIN http : http[i].page = i
            /\ ~Done => ENABLED Next
            /\ Done =>
                 /\ Len(http) = n \div call.page_size + 1
                 /\ outcome.kind = "value"
                 /\ Len(outcome.value) = n
                 /\ \A k \in 1..n :
                       Cardinality({a \in DOMAIN outcome.value : outcome.value[a].name = k}) = 1

C9_Witness ==
    /\ Returned
    /\ call.page = 1 /\ call.page_size = 2
    /\ Honest(4)
    /\ Len(http) = 3
    /\ Last.resp.count = 0

\* C10: a failure on the k-th request ends the call with the same error text as
\* the same failure on the first request, after exactly k log entries: the
\* first by the except clause matching the failure, every later one by the
\* catch-all clause with the function's context string.
C10_FailurePropagates ==
    (Done /\ http # <<>> /\ IsFailure(Last.resp)) =>
        /\ outcome.kind = "exc"
        /\ ErrorText = FirstRequestText(call.fn, Last.resp)
        /\ Len(log) = Len(http)
        /\ log[1] = InnermostLog(call.fn, Last.resp)
        /\ \A j \in 2..Len(log) :
              log[j] = <<LogContext(call.fn)>> \o FirstRequestText(call.fn, Last.resp)

C10_Witness ==
    /\ Failed
    /\ Len(http) = 3
    /\ Len(log) = 3
    /\ Last.resp.kind = "timeout"

\* C8: a field built by get_non_negative_int_field accepts an integer input v
\* when v >= 0 and rejects it with the must-be-non-negative-integer error when
\* v < 0.
C8_NonNegativeOnly ==
    (/\ vpc = "done"
     /\ field.schema \in {"WorkspaceSchema", "DeviceGroupSchema"}
     /\ input.t = "int") =>
        /\ input.v >= 0 => errors = <<>>
        /\ input.v < 0 => errors = <<"must_be_non_negative_integer", field.name>>

===========================================================================
